---- MODULE Spec2Model ----
(***************************************************************************)
(* A model of the dot/placer game of minimax_dot: the staggered 9x9 board  *)
(* geometry (Pos), the packed game state (State), its branch generators,   *)
(* the breadth-first distance to the edge and the strategies built on it.  *)
(*                                                                         *)
(* Encodings.  A Pos is its cell index 0..80.  A State is a record         *)
(* [dot, filled]: bits 0..80 of the u128 are the set `filled`, bits        *)
(* 120..127 are `dot`; no operation of the source touches the other bits.  *)
(* Option<T> is a sequence: <<>> is None and <<v>> is Some(v).  Rust       *)
(* arrays and iterators are sequences indexed from 1.                      *)
(***************************************************************************)
EXTENDS Integers, Sequences, FiniteSets, TLC

VARIABLES state, last, nops

vars == <<state, last, nops>>

\* ---------------------------------------------------------------- bounds

\* How many operations a behaviour of the game performs after construction.
MaxOps == 2

\* ------------------------------------------------------------- constants

BOARD_W == 9
BOARD_H == 9
BOARD_SIZE == BOARD_W * BOARD_H

\* The number of random fills State::new performs.
NEW_FILLS == 8

\* The number of outcomes of rng.gen_range(0, 7) in Pos::near_center.
NEAR_CHOICES == 7

None == <<>>
Some(v) == <<v>>
IsSome(o) == Len(o) = 1
Unwrap(o) == o[1]

Min2(a, b) == IF a <= b THEN a ELSE b

\* -------------------------------------------------------------- geometry

PosSet == 0 .. (BOARD_SIZE - 1)

from_xy(x, y) == y * BOARD_W + x

xy(p) == <<p % BOARD_W, p \div BOARD_W>>

CENTER == (BOARD_H \div 2) * BOARD_W + (BOARD_W \div 2)

dist_to_edge(p) ==
    LET x == xy(p)[1]
        y == xy(p)[2]
        dist_left == x + 1
        dist_right == BOARD_W - x
        dist_up == y + 1
        dist_down == BOARD_H - y
    IN  Min2(Min2(dist_left, dist_right), Min2(dist_up, dist_down))

compute_neighbor(p, dx, dy) ==
    LET nx == dx + xy(p)[1]
        ny == dy + xy(p)[2]
    IN  IF nx >= 0 /\ nx < BOARD_W /\ ny >= 0 /\ ny < BOARD_H
        THEN Some(from_xy(nx, ny))
        ELSE None

\* Neighbours computed as if no row were staggered.
neighbors_unstaggered(p) ==
    << compute_neighbor(p, -1, -1),
       compute_neighbor(p, 0, -1),
       compute_neighbor(p, -1, 0),
       compute_neighbor(p, 1, 0),
       compute_neighbor(p, -1, 1),
       compute_neighbor(p, 0, 1) >>

neighbors(p) ==
    LET y_parity == xy(p)[2] % 2
    IN  << compute_neighbor(p, -1 + y_parity, -1),
           compute_neighbor(p, 0 + y_parity, -1),
           compute_neighbor(p, -1, 0),
           compute_neighbor(p, 1, 0),
           compute_neighbor(p, -1 + y_parity, 1),
           compute_neighbor(p, 0 + y_parity, 1) >>

\* neighbors, tabulated once.
NeighborSeq == SubSeq([i \in 1..BOARD_SIZE |-> neighbors(i - 1)], 1, BOARD_SIZE)
NeighborTable(p) == NeighborSeq[p + 1]

near_center(i) == IF i < 6 THEN Unwrap(NeighborTable(CENTER)[i + 1]) ELSE CENTER

\* ----------------------------------------------------------------- State

with_dot(pos) == [dot |-> pos, filled |-> {}]

dot(s) == s.dot

set_dot(s, pos) == [s EXCEPT !.dot = pos]

has_filled(s, pos) == pos \in s.filled

\* A fill that forgets the dot.
can_fill_ignoring_dot(s, pos) == ~has_filled(s, pos)

\* A fill that forgets what is filled already.
can_fill_ignoring_filled(s, pos) == ~(pos = dot(s))

can_fill(s, pos) == ~(pos = dot(s) \/ has_filled(s, pos))

\* fill: the returned bool and the state it leaves behind.
fill(s, pos) ==
    [ret |-> can_fill(s, pos),
     state |-> IF can_fill(s, pos)
               THEN [s EXCEPT !.filled = @ \cup {pos}]
               ELSE s]

\* An off-board neighbour counted as filled.
placer_win_off_board_filled(s) ==
    \A i \in 1..6 :
        LET n == NeighborTable(dot(s))[i]
        IN  IF n = None THEN TRUE ELSE has_filled(s, Unwrap(n))

placer_win(s) ==
    \A i \in 1..6 :
        LET n == NeighborTable(dot(s))[i]
        IN  IF n = None THEN FALSE ELSE has_filled(s, Unwrap(n))

\* A branch that moves the dot onto filled cells.
compute_branch_onto_filled(s, nidx) ==
    LET n == NeighborTable(dot(s))[nidx]
    IN  IF n = None THEN Some(None)
        ELSE Some(Some(set_dot(s, Unwrap(n))))

compute_branch(s, nidx) ==
    LET n == NeighborTable(dot(s))[nidx]
    IN  IF n = None THEN Some(None)
        ELSE IF has_filled(s, Unwrap(n)) THEN None
        ELSE Some(Some(set_dot(s, Unwrap(n))))

branch_dot(s) == [nidx \in 1..6 |-> compute_branch(s, nidx)]

\* The cells in the order of the flat_map: y outermost, x innermost.
RowMajor == [i \in 1..BOARD_SIZE |-> from_xy((i - 1) % BOARD_W, (i - 1) \div BOARD_W)]

\* The closure of the filter_map: None (skipped), Some(None) or Some(Some(new)).
\* An item that looks for the enclosure before the cell is filled.
placer_item_win_before_fill(s, p) ==
    LET new == fill(s, p)
    IN  IF p = dot(s) THEN None
        ELSE IF ~new.ret THEN None
        ELSE IF placer_win(s) THEN Some(None)
        ELSE Some(Some(new.state))

placer_item(s, p) ==
    LET new == fill(s, p)
    IN  IF p = dot(s) THEN None
        ELSE IF ~new.ret THEN None
        ELSE IF placer_win(new.state) THEN Some(None)
        ELSE Some(Some(new.state))

IsKept(item) == item # None

branch_placer(s) ==
    LET items == [i \in 1..BOARD_SIZE |-> placer_item(s, RowMajor[i])]
        kept == SelectSeq(items, IsKept)
    IN  [i \in 1..Len(kept) |-> Unwrap(kept[i])]

\* --------------------------------------------------- dist_to_reach_edge

(***************************************************************************)
(* `searched` is declared without a type and is built only from the        *)
(* literal 1 shifted left, so it is an i32: a shift by 32 or more panics   *)
(* when the build checks overflow (the dev profile) and otherwise shifts   *)
(* by the amount modulo 32 (the release profile).  It is modelled as the   *)
(* set of its bits that are set.  overflow_checks says which build runs.   *)
(* The result is [panicked, ret]: ret is the Option<u8> returned.          *)
(***************************************************************************)
SEARCHED_BITS == 32

\* 1 << n overflows.
shl_overflows(n) == n >= SEARCHED_BITS

\* The bit that 1 << n sets when the shift does not panic.
shl_bit(n) == n % SEARCHED_BITS

Returned(ret) == [panicked |-> FALSE, ret |-> ret]
Panicked == [panicked |-> TRUE, ret |-> None]
Logged(result, pushed) ==
    [panicked |-> result.panicked, ret |-> result.ret, pushed |-> pushed]

\* One neighbour of one cell of the old frontier.  acc is [searched, new,
\* out]: out is <<>> while the loop runs on and <<result>> once it has
\* returned or panicked.  The result's `pushed` lists every cell that was
\* put on a frontier, in order.
visit_neighbor(s, acc, n, steps, overflow_checks) ==
    IF acc.out # <<>> THEN acc
    ELSE IF n = None THEN [acc EXCEPT !.out = <<Returned(Some(steps))>>]
    ELSE IF overflow_checks /\ shl_overflows(Unwrap(n))
         THEN [acc EXCEPT !.out = <<Panicked>>]
    ELSE IF shl_bit(Unwrap(n)) \notin acc.searched /\ ~has_filled(s, Unwrap(n))
         THEN [acc EXCEPT !.searched = @ \cup {shl_bit(Unwrap(n))},
                          !.new = Append(@, Unwrap(n))]
    ELSE acc

RECURSIVE visit_neighbors(_, _, _, _, _, _)
visit_neighbors(s, acc, ns, i, steps, overflow_checks) ==
    IF i > 6 THEN acc
    ELSE visit_neighbors(s, visit_neighbor(s, acc, ns[i], steps, overflow_checks),
                         ns, i + 1, steps, overflow_checks)

\* The drain of the old frontier, in order.
RECURSIVE drain_frontier(_, _, _, _, _, _)
drain_frontier(s, acc, old_frontier, i, steps, overflow_checks) ==
    IF i > Len(old_frontier) \/ acc.out # <<>> THEN acc
    ELSE drain_frontier(s,
             visit_neighbors(s, acc, NeighborTable(old_frontier[i]), 1, steps,
                             overflow_checks),
             old_frontier, i + 1, steps, overflow_checks)

\* One pass of `loop`, entered with steps already incremented and the
\* frontiers swapped.
RECURSIVE search_loop(_, _, _, _, _)
search_loop(s, searched, old_frontier, steps, overflow_checks) ==
    IF Len(old_frontier) = 0 THEN Logged(Returned(None), <<>>)
    ELSE LET acc == drain_frontier(s,
                        [searched |-> searched, new |-> <<>>, out |-> <<>>],
                        old_frontier, 1, steps, overflow_checks)
             rest == IF acc.out # <<>> THEN Logged(acc.out[1], <<>>)
                     ELSE search_loop(s, acc.searched, acc.new, steps + 1,
                                      overflow_checks)
         IN  Logged(rest, acc.new \o rest.pushed)

\* dist_to_reach_edge with the log of its frontiers.
search_edge(s, overflow_checks) ==
    IF overflow_checks /\ shl_overflows(dot(s)) THEN Logged(Panicked, <<>>)
    ELSE LET run == search_loop(s, {shl_bit(dot(s))}, <<dot(s)>>, 1,
                                overflow_checks)
         IN  Logged(run, <<dot(s)>> \o run.pushed)

dist_to_reach_edge(s, overflow_checks) ==
    LET run == search_edge(s, overflow_checks)
    IN  [panicked |-> run.panicked, ret |-> run.ret]

\* ----------------------------------------------------------------- Outcome

SEARCH_DEPTH == 4

\* The widths of the payloads: Lose and Play carry a u8, Win an i8.
U8_RANGE == 256
I8_MIN == -128

Lose(n) == [tag |-> "Lose", val |-> n]
Play(n) == [tag |-> "Play", val |-> n]
Win(n) == [tag |-> "Win", val |-> n]

\* The position of a variant in the declaration of the enum.
variant_index(o) ==
    IF o.tag = "Lose" THEN 0 ELSE IF o.tag = "Play" THEN 1 ELSE 2

\* The derived Ord: the variants by their position, then the payloads.
\* -1 is Less, 0 is Equal, 1 is Greater.
outcome_cmp(a, b) ==
    IF variant_index(a) < variant_index(b) THEN -1
    ELSE IF variant_index(a) > variant_index(b) THEN 1
    ELSE IF a.val < b.val THEN -1
    ELSE IF a.val > b.val THEN 1
    ELSE 0

wrap_u8(n) == n % U8_RANGE
wrap_i8(n) == ((n - I8_MIN) % U8_RANGE) + I8_MIN

\* An inc that counts the turns of a win upwards.
inc_counting_up(o) ==
    IF o.tag = "Lose" THEN Lose(wrap_u8(o.val + 1))
    ELSE IF o.tag = "Play" THEN Play(o.val)
    ELSE Win(wrap_i8(o.val + 1))

\* Outcome::inc, with the wrapping arithmetic of a build that does not
\* check overflow; search never counts far enough to overflow.
inc(o) ==
    IF o.tag = "Lose" THEN Lose(wrap_u8(o.val + 1))
    ELSE IF o.tag = "Play" THEN Play(o.val)
    ELSE Win(wrap_i8(o.val - 1))

\* What a call search(_, _, n) returns without recursing: Play of the
\* dot's dist_to_edge at n = 0, Lose(0) or Win(0) at n > 0.  A returned
\* value is [v, n, incs]: the outcome, the depth of the call that returned
\* it and the number of inc applied to it since it was made.
SearchLeaves ==
    {[v |-> Play(dist_to_edge(p)), n |-> 0, incs |-> 0] : p \in PosSet}
    \cup {[v |-> o, n |-> n, incs |-> 0] : o \in {Lose(0), Win(0)},
                                          n \in 1..SEARCH_DEPTH}

\* search(_, _, n + 1) returns what search(_, _, n) returned, inc applied.
search_unwind(r) == [v |-> inc(r.v), n |-> r.n + 1, incs |-> r.incs + 1]

\* ------------------------------------------------------------ strategies

\* Option<u8> as min_by_key orders it: None below every Some.
key_lt(a, b) ==
    \/ a = None /\ b # None
    \/ a # None /\ b # None /\ Unwrap(a) < Unwrap(b)

\* (0..len).min_by_key(key): the first index, from 0, whose key is least.
min_by_key(keys) ==
    CHOOSE i \in 0..(Len(keys) - 1) :
        /\ \A j \in 0..(Len(keys) - 1) : ~key_lt(keys[j + 1], keys[i + 1])
        /\ \A j \in 0..(i - 1) : key_lt(keys[i + 1], keys[j + 1])

\* SmartPathfind::preferred_state: the index chosen, or a panic, raised by
\* a key's search or by unwrap on an empty list.
smart_preferred_state(choices, overflow_checks) ==
    LET runs == [i \in 1..Len(choices) |->
                    dist_to_reach_edge(choices[i], overflow_checks)]
    IN  IF Len(choices) = 0 \/ \E i \in 1..Len(choices) : runs[i].panicked
        THEN [panicked |-> TRUE, ret |-> 0]
        ELSE [panicked |-> FALSE,
              ret |-> min_by_key([i \in 1..Len(choices) |-> runs[i].ret])]

\* ---------------------------------------------------- State::new and draws

\* The on-board cells of a neighbors array.
Present(ns) == {Unwrap(ns[i]) : i \in {j \in 1..6 : ns[j] # None}}

\* The positions Pos::random returns in the model: the cells around the
\* centre, where the dot starts.
DrawCells == Present(NeighborTable(CENTER))

\* The states State::new can hold after k iterations of its loop.
RECURSIVE new_after(_)
new_after(k) ==
    IF k = 0 THEN {with_dot(near_center(i)) : i \in 0..(NEAR_CHOICES - 1)}
    ELSE {fill(s, pos).state : s \in new_after(k - 1), pos \in DrawCells}

NewStates == new_after(NEW_FILLS)


\* The cells a caller of fill names in the model: a drawn cell, or, when
\* the dot stands on the rim, a cell next to the dot.
FillCells(s) ==
    DrawCells \cup
    (IF dist_to_edge(dot(s)) = 1 THEN Present(NeighborTable(dot(s))) ELSE {})

EmptyBoards == {with_dot(p) : p \in PosSet}

\* ------------------------------------------------------------ the game

NoOp == [op |-> "init", pos |-> 0, ret |-> TRUE]

Init ==
    /\ state \in NewStates \cup EmptyBoards
    /\ last = NoOp
    /\ nops = 0

\* A caller fills pos (the human placer's loop of game.rs).
Fill(pos) ==
    /\ state' = fill(state, pos).state
    /\ last' = [op |-> "fill", pos |-> pos, ret |-> fill(state, pos).ret]
    /\ nops' = nops + 1

\* The dot takes slot nidx of branch_dot, whichever a strategy prefers: a
\* successor, or the escape that ends the game.
MoveDot(nidx) ==
    /\ LET b == branch_dot(state)[nidx]
       IN  /\ IsSome(b)
           /\ IF IsSome(Unwrap(b))
              THEN /\ state' = Unwrap(Unwrap(b))
                   /\ last' = [op |-> "move", pos |-> 0, ret |-> TRUE]
              ELSE /\ state' = state
                   /\ last' = [op |-> "escape", pos |-> 0, ret |-> TRUE]
    /\ nops' = nops + 1

\* The placer takes the i-th item of branch_placer: a successor, or the
\* enclosure that ends the game.
Place(placer_branches, i) ==
    /\ LET b == placer_branches[i]
       IN  IF IsSome(b)
           THEN /\ Unwrap(b).filled \subseteq state.filled \cup DrawCells
                /\ state' = Unwrap(b)
                /\ last' = [op |-> "place", pos |-> 0, ret |-> TRUE]
           ELSE /\ state' = state
                /\ last' = [op |-> "enclose", pos |-> 0, ret |-> TRUE]
    /\ nops' = nops + 1

Next ==
    /\ nops < MaxOps
    /\ \/ \E pos \in FillCells(state) : Fill(pos)
       \/ \E nidx \in 1..6 : MoveDot(nidx)
       \/ \E placer_branches \in {branch_placer(state)} :
              \E i \in 1..Len(placer_branches) : Place(placer_branches, i)

Spec == Init /\ [][Next]_vars

\* ------------------------------------------------- the distance searches

\* A caller fills a free cell next to the dot.
Surround(pos) ==
    /\ can_fill(state, pos)
    /\ state' = fill(state, pos).state
    /\ last' = [op |-> "fill", pos |-> 0, ret |-> TRUE]
    /\ UNCHANGED nops

\* A caller asks for the dot's distance to the edge, in either build.
DistToReachEdge(overflow_checks) ==
    /\ last' = [op |-> "dist_to_reach_edge",
                overflow_checks |-> overflow_checks,
                run |-> search_edge(state, overflow_checks)]
    /\ UNCHANGED <<state, nops>>

\* The boards offered beside the current one: the corner and the centre
\* of an empty board.
OtherChoices == {with_dot(from_xy(0, 0)), with_dot(CENTER)}

\* A caller asks SmartPathfind to choose among choices, in either build.
PreferredState(choices, overflow_checks) ==
    /\ last' = [op |-> "preferred_state",
                overflow_checks |-> overflow_checks,
                choices |-> choices,
                run |-> smart_preferred_state(choices, overflow_checks)]
    /\ UNCHANGED <<state, nops>>

\* The board has not been asked about since it was built or last filled:
\* the searches are pure, so a second question has the first one's answer.
Unasked == last.op \in {"init", "fill"}

NextReach ==
    \/ \E pos \in Present(NeighborTable(dot(state))) : Surround(pos)
    \/ /\ Unasked
       /\ \E overflow_checks \in BOOLEAN : DistToReachEdge(overflow_checks)
    \/ /\ Unasked
       /\ \E other \in OtherChoices, overflow_checks \in BOOLEAN :
              \E choices \in {<<state>>, <<state, other>>, <<other, state>>} :
                  PreferredState(choices, overflow_checks)

SpecReach == Init /\ [][NextReach]_vars

\* ----------------------------------------------------------- the geometry

\* A caller asks for the neighbours of the dot's cell and of a cell q.
Neighbors(q) ==
    /\ last' = [op |-> "neighbors",
                p |-> dot(state),
                q |-> q,
                of_p |-> neighbors(dot(state)),
                of_q |-> neighbors(q)]
    /\ UNCHANGED <<state, nops>>

InitGeometry ==
    /\ state \in EmptyBoards
    /\ last = NoOp
    /\ nops = 0

NextGeometry == \E q \in PosSet : Neighbors(q)

SpecGeometry == InitGeometry /\ [][NextGeometry]_vars

\* ----------------------------------------------------------- the outcomes

\* Two values returned by calls of search, side by side.
InitOutcome ==
    /\ state = with_dot(CENTER)
    /\ nops = 0
    /\ \E a \in SearchLeaves, b \in SearchLeaves :
           last = [op |-> "search", a |-> a, b |-> b]

\* The call one level up returns the first value, inc applied.
UnwindFirst ==
    /\ last.a.n < SEARCH_DEPTH
    /\ last' = [last EXCEPT !.a = search_unwind(@)]
    /\ UNCHANGED <<state, nops>>

\* The call one level up returns the second value, inc applied.
UnwindSecond ==
    /\ last.b.n < SEARCH_DEPTH
    /\ last' = [last EXCEPT !.b = search_unwind(@)]
    /\ UNCHANGED <<state, nops>>

NextOutcome == UnwindFirst \/ UnwindSecond

SpecOutcome == InitOutcome /\ [][NextOutcome]_vars

\* ------------------------------------------------------ DotStrategy::play

\* DumbPathfind::preferred_state: the first candidate whose dot is nearest
\* to the rim; unwrap panics on an empty list.
dumb_preferred_state(choices) ==
    IF Len(choices) = 0 THEN [panicked |-> TRUE, ret |-> 0]
    ELSE [panicked |-> FALSE,
          ret |-> min_by_key([i \in 1..Len(choices) |->
                                 Some(dist_to_edge(dot(choices[i])))])]

\* A dot policy is [name, overflow_checks]: the implementation of
\* DotStrategy and the build it runs in.
Policies ==
    {[name |-> "DumbPathfind", overflow_checks |-> FALSE],
     [name |-> "SmartPathfind", overflow_checks |-> FALSE],
     [name |-> "SmartPathfind", overflow_checks |-> TRUE]}

preferred_state(policy, choices) ==
    IF policy.name = "DumbPathfind" THEN dumb_preferred_state(choices)
    ELSE smart_preferred_state(choices, policy.overflow_checks)

\* A slot of branch_dot that holds a successor state.
IsMove(b) == b # None /\ b # Some(None)

\* DotStrategy::play: None as soon as a slot is an escape (the `?`), else
\* the successor the policy prefers among choices[0..n_choices].  The
\* result is [panicked, ret], ret being the Option<State> returned.
dot_play(s, policy) ==
    LET branches == branch_dot(s)
        kept == SelectSeq(branches, IsMove)
        choices == [i \in 1..Len(kept) |-> Unwrap(Unwrap(kept[i]))]
        pick == preferred_state(policy, choices)
    IN  IF \E i \in 1..6 : branches[i] = Some(None) THEN Returned(None)
        ELSE IF pick.panicked THEN Panicked
        ELSE Returned(Some(choices[pick.ret + 1]))

\* ------------------------------------------------------------------ search

\* How deep the searches of a behaviour go: search is called with n in
\* 0..MaxDepth.
MaxDepth == 4

\* The result of search is [panicked, ret], ret being the Outcome
\* returned; ret means nothing when the call panicked.
SearchPanicked == [panicked |-> TRUE, ret |-> Play(0)]

\* Iterator::max over Outcome: an element no other element is above.
outcome_max(outcomes) ==
    CHOOSE o \in {outcomes[i] : i \in 1..Len(outcomes)} :
        \A i \in 1..Len(outcomes) : outcome_cmp(outcomes[i], o) # 1

\* .inc() on what a call returned.
inc_result(run) ==
    IF run.panicked THEN SearchPanicked ELSE Returned(inc(run.ret))

\* .max().unwrap() over what the closure returned for each placement.
max_unwrap(replies) ==
    IF Len(replies) = 0 \/ \E i \in 1..Len(replies) : replies[i].panicked
    THEN SearchPanicked
    ELSE Returned(outcome_max([i \in 1..Len(replies) |-> replies[i].ret]))

RECURSIVE search(_, _, _)

\* A closure that forgets to count the turn.
search_reply_without_inc(ns, policy, n) ==
    IF ns = None THEN Returned(Win(0))
    ELSE search(Unwrap(ns), policy, n - 1)

\* The closure search maps over branch_placer: a placement that encloses
\* the dot is Win(0), any other is the search one turn on, inc applied.
search_reply(ns, policy, n) ==
    IF ns = None THEN Returned(Win(0))
    ELSE inc_result(search(Unwrap(ns), policy, n - 1))

\* The placer's best reply over the items of branch_placer.
search_placer(branches, policy, n) ==
    max_unwrap(SubSeq([i \in 1..Len(branches) |->
                          search_reply(branches[i], policy, n)],
                      1, Len(branches)))

\* search once the dot has played: Lose(0) when the dot has left the
\* board, else the placer's best reply to the dot's move.
search_dot(played, policy, n) ==
    IF played.panicked THEN SearchPanicked
    ELSE IF played.ret = None THEN Returned(Lose(0))
    ELSE search_placer(branch_placer(Unwrap(played.ret)), policy, n)

\* search(state, dot_strategy, n).  It panics when the policy does and
\* when max finds no placement to unwrap.
search(s, policy, n) ==
    IF n = 0 THEN Returned(Play(dist_to_edge(dot(s))))
    ELSE search_dot(dot_play(s, policy), policy, n)

\* ----------------------------------------------------- utility heuristics

\* How deep the utilities of a behaviour look: lvl is in 1..MaxLvl.
MaxLvl == 2

\* The score of a branch that ends the game.
TERMINAL_SCORE == -100

\* The result of a utility is [panicked, ret], ret being the i8 returned.
UtilityPanicked == [panicked |-> TRUE, ret |-> 0]

\* Negation of an i8; no score is I8_MIN, the one value it overflows on.
neg_i8(v) == wrap_i8(-v)

\* Iterator::min over the scores.
score_min(scores) ==
    CHOOSE v \in {scores[i] : i \in 1..Len(scores)} :
        \A i \in 1..Len(scores) : v <= scores[i]

\* min().unwrap() or min().expect(): a panic of a score is passed on, and
\* so is the panic on an empty iterator.
min_unwrap(runs) ==
    IF Len(runs) = 0 \/ \E i \in 1..Len(runs) : runs[i].panicked
    THEN UtilityPanicked
    ELSE Returned(score_min([i \in 1..Len(runs) |-> runs[i].ret]))

negated(run) ==
    IF run.panicked THEN UtilityPanicked ELSE Returned(neg_i8(run.ret))

RECURSIVE approx_utility_placer(_, _)
RECURSIVE approx_utility_dot(_, _)

\* The closure mapped over the slots of branch_dot that filter_map keeps.
placer_score(ns, lvl) ==
    IF ns = None THEN Returned(TERMINAL_SCORE)
    ELSE negated(approx_utility_dot(Unwrap(ns), lvl - 1))

\* The closure mapped over the items of branch_placer.
dot_score(ns, lvl) ==
    IF ns = None THEN Returned(TERMINAL_SCORE)
    ELSE negated(approx_utility_placer(Unwrap(ns), lvl - 1))

\* The minimum over the slots filter_map(|&ns| ns) keeps: the blocked
\* slots of branch_dot are dropped before it is taken.
placer_min(kept, lvl) ==
    min_unwrap(SubSeq([i \in 1..Len(kept) |-> placer_score(Unwrap(kept[i]), lvl)],
                      1, Len(kept)))

dot_min(branches, lvl) ==
    min_unwrap(SubSeq([i \in 1..Len(branches) |-> dot_score(branches[i], lvl)],
                      1, Len(branches)))

approx_utility_placer(s, lvl) ==
    IF lvl = 0 THEN Returned(dist_to_edge(dot(s)))
    ELSE placer_min(SelectSeq(branch_dot(s), IsKept), lvl)

approx_utility_dot(s, lvl) ==
    IF lvl = 0 THEN Returned(neg_i8(dist_to_edge(dot(s))))
    ELSE dot_min(branch_placer(s), lvl)

\* --------------------------------------------------- PlacerStrategy::play

\* max_by_key over the pairs (search outcome, random byte): the index
\* returned is one whose outcome no other outcome is above, and the bytes
\* drawn decide which.  The result is [panicked, rets], rets being the
\* indices the call can return.
predictive_pick(runs) ==
    IF Len(runs) = 0 \/ \E i \in 1..Len(runs) : runs[i].panicked
    THEN [panicked |-> TRUE, rets |-> {}]
    ELSE [panicked |-> FALSE,
          rets |-> {i - 1 : i \in {j \in 1..Len(runs) :
                       \A k \in 1..Len(runs) :
                           outcome_cmp(runs[k].ret, runs[j].ret) # 1}}]

\* PlacerPredictive::preferred_state with dot_strategy the policy.
predictive_preferred_state(choices, policy) ==
    predictive_pick(SubSeq([i \in 1..Len(choices) |->
                               search(choices[i], policy, SEARCH_DEPTH)],
                           1, Len(choices)))

\* The states play can return once preferred_state has answered.
placer_chosen(branches, pick) ==
    IF pick.panicked THEN [panicked |-> TRUE, rets |-> {}]
    ELSE [panicked |-> FALSE,
          rets |-> {Some(Unwrap(branches[i + 1])) : i \in pick.rets}]

\* PlacerStrategy::play over the items of branch_placer: None as soon as
\* an item is an enclosure (the `?`), else a successor preferred_state
\* prefers.  The result is [panicked, rets], rets being the Option<State>
\* values the call can return.
placer_play_items(branches, policy) ==
    IF \E i \in 1..Len(branches) : branches[i] = None
    THEN [panicked |-> FALSE, rets |-> {None}]
    ELSE placer_chosen(branches,
             predictive_preferred_state(
                 [i \in 1..Len(branches) |-> Unwrap(branches[i])], policy))

placer_play(s, policy) == placer_play_items(branch_placer(s), policy)

\* ------------------------------------------------- the strategies' boards

\* The cells left open on the boards the strategies are asked about: a
\* pocket under the top rim, every other cell of the board being filled.
Pocket ==
    {from_xy(1, 0), from_xy(2, 0), from_xy(1, 1), from_xy(2, 1),
     from_xy(1, 2), from_xy(2, 2), from_xy(2, 3)}

\* Late positions of a game: the dot in the pocket, some of the pocket
\* open, the rest of the board filled.
PocketBoards ==
    {[dot |-> d, filled |-> PosSet \ (open \cup {d})] :
        d \in Pocket, open \in SUBSET Pocket}

InitStrategy ==
    /\ state \in PocketBoards
    /\ last = NoOp
    /\ nops = 0

\* A caller lets the dot play by a policy.
DotPlay(policy) ==
    /\ last' = [op |-> "dot_play", policy |-> policy,
                run |-> dot_play(state, policy)]
    /\ UNCHANGED <<state, nops>>

\* A caller searches the board n turns deep against a policy.
Search(policy, n) ==
    /\ last' = [op |-> "search_call", policy |-> policy, n |-> n,
                run |-> search(state, policy, n)]
    /\ UNCHANGED <<state, nops>>

\* A caller asks for the placer's utility of the board, lvl levels deep.
ApproxUtilityPlacer(lvl) ==
    /\ last' = [op |-> "approx_utility_placer", lvl |-> lvl,
                run |-> approx_utility_placer(state, lvl)]
    /\ UNCHANGED <<state, nops>>

\* A caller asks for the dot's utility of the board, lvl levels deep.
ApproxUtilityDot(lvl) ==
    /\ last' = [op |-> "approx_utility_dot", lvl |-> lvl,
                run |-> approx_utility_dot(state, lvl)]
    /\ UNCHANGED <<state, nops>>

NextStrategy ==
    /\ last.op = "init"
    /\ \/ \E policy \in Policies : DotPlay(policy)
       \/ \E policy \in Policies, n \in 0..MaxDepth : Search(policy, n)
       \/ \E lvl \in 1..MaxLvl : ApproxUtilityPlacer(lvl)
       \/ \E lvl \in 1..MaxLvl : ApproxUtilityDot(lvl)

SpecStrategy == InitStrategy /\ [][NextStrategy]_vars

\* ------------------------------------------------- the AI-versus-AI loop

\* The loop's searches are followed on boards with at most MaxFree free
\* cells; on a board with more, only in the build that checks overflow,
\* where the first shift past the field ends the search.
MaxFree == 7

FreeCells(s) == PosSet \ (s.filled \cup {dot(s)})

Followed(s, overflow_checks) ==
    overflow_checks \/ Cardinality(FreeCells(s)) <= MaxFree

\* The dot strategy of main, in the build that runs: SmartPathfind, for
\* the dot and inside the placer's search.
LoopPolicy(overflow_checks) ==
    [name |-> "SmartPathfind", overflow_checks |-> overflow_checks]

\* The loop at the top of an iteration: nops counts the placer's turns,
\* verdict is "none" until the loop breaks or the program panics.
LoopAt(overflow_checks, mover, verdict) ==
    [op |-> "loop", overflow_checks |-> overflow_checks, mover |-> mover,
     verdict |-> verdict]

\* The late positions the loop is taken up at, the placer to move: the cell
\* the dot has just left is free and touches the dot.
LoopBoards ==
    {s \in PocketBoards : Present(NeighborTable(dot(s))) \cap FreeCells(s) # {}}

\* The loop starts from State::new, or is taken up at a late position.
InitLoop ==
    /\ state \in NewStates \cup LoopBoards
    /\ \E overflow_checks \in BOOLEAN :
           last = LoopAt(overflow_checks, "placer", "none")
    /\ nops = 0

\* placer_strategy.play(state): the state it returns, "placer" printed on
\* None, or the panic.
PlacerTurn(run) ==
    /\ nops' = nops + 1
    /\ IF run.panicked
       THEN /\ last' = [last EXCEPT !.verdict = "panic"]
            /\ UNCHANGED state
       ELSE \E ret \in run.rets :
                IF ret = None
                THEN /\ last' = [last EXCEPT !.verdict = "placer"]
                     /\ UNCHANGED state
                ELSE /\ last' = [last EXCEPT !.mover = "dot"]
                     /\ state' = Unwrap(ret)

\* dot_strategy.play(state): the state it returns, "dot" printed on None,
\* or the panic.
DotTurn(run) ==
    /\ UNCHANGED nops
    /\ IF run.panicked
       THEN /\ last' = [last EXCEPT !.verdict = "panic"]
            /\ UNCHANGED state
       ELSE IF run.ret = None
       THEN /\ last' = [last EXCEPT !.verdict = "dot"]
            /\ UNCHANGED state
       ELSE /\ last' = [last EXCEPT !.mover = "placer"]
            /\ state' = Unwrap(run.ret)

NextLoop ==
    /\ last.verdict = "none"
    /\ \/ /\ last.mover = "placer"
          /\ Followed(state, last.overflow_checks)
          /\ \E run \in {placer_play(state, LoopPolicy(last.overflow_checks))} :
                 PlacerTurn(run)
       \/ /\ last.mover = "dot"
          /\ \E run \in {dot_play(state, LoopPolicy(last.overflow_checks))} :
                 DotTurn(run)

SpecLoop == InitLoop /\ [][NextLoop]_vars

\* ------------------------------------------- reference geometry (claims)

\* Twice the horizontal coordinate of a cell's centre: odd rows sit half a
\* cell to the right of even rows.
HexX(p) == 2 * (p % BOARD_W) + ((p \div BOARD_W) % 2)

Abs(n) == IF n < 0 THEN -n ELSE n

\* Two cells touch when their centres are one cell apart on the same row,
\* or half a cell apart on adjacent rows.
HexAdjacent(p, q) ==
    LET dy == Abs((p \div BOARD_W) - (q \div BOARD_W))
        dx == Abs(HexX(p) - HexX(q))
    IN  (dy = 0 /\ dx = 2) \/ (dy = 1 /\ dx = 1)

AdjacentSeq ==
    SubSeq([i \in 1..BOARD_SIZE |-> {q \in PosSet : HexAdjacent(i - 1, q)}],
           1, BOARD_SIZE)

\* The in-board cells touching p.
AdjacentCells(p) == AdjacentSeq[p + 1]

\* p lies on the rim of the board.
OnBoundary(p) ==
    \/ p % BOARD_W = 0
    \/ p % BOARD_W = BOARD_W - 1
    \/ p \div BOARD_W = 0
    \/ p \div BOARD_W = BOARD_H - 1

\* The dot is enclosed in s: six touching cells, all of them filled.
Enclosed(s) ==
    /\ Cardinality(AdjacentCells(s.dot)) = 6
    /\ AdjacentCells(s.dot) \subseteq s.filled

\* The fewest dot moves that take the dot of s off the board through
\* unfilled cells, as an Option: reached is what the dot can stand on after
\* k moves or fewer.
RECURSIVE MovesToLeave(_, _, _)
MovesToLeave(s, reached, k) ==
    IF \E p \in reached : OnBoundary(p) THEN Some(k + 1)
    ELSE LET more == UNION {AdjacentCells(p) : p \in reached} \ s.filled
         IN  IF more \subseteq reached THEN None
             ELSE MovesToLeave(s, reached \cup more, k + 1)

ShortestEscape(s) == MovesToLeave(s, {s.dot}, 0)

\* ---------------------------------------------------------------- claims

\* C1: in every state reachable from State::new or from an empty board by
\* fills, dot moves and placements, the dot's cell is not marked filled.
DotNotFilled == state.dot \notin state.filled

\* C1 witness: the dot has moved next to a filled cell.
DotNotFilledWitness ==
    /\ last.op = "move"
    /\ AdjacentCells(state.dot) \cap state.filled # {}

\* C2: fill(pos) returns false and changes nothing when pos is filled or is
\* the dot's cell; otherwise it returns true and adds pos alone to the
\* filled cells.  A second fill of the cell returns false, and so does a
\* fill of the dot's cell.
FillContract ==
    /\ \A pos \in PosSet :
        \E r \in {fill(state, pos)} :
            IF pos \in state.filled \/ pos = state.dot
            THEN r.ret = FALSE /\ r.state = state
            ELSE /\ r.ret = TRUE
                 /\ r.state = [dot |-> state.dot,
                               filled |-> state.filled \cup {pos}]
                 /\ fill(r.state, pos) = [ret |-> FALSE, state |-> r.state]
    /\ fill(state, state.dot).ret = FALSE

\* C2 witness: a fill of an already filled cell has been refused.
FillContractWitness ==
    /\ last.op = "fill"
    /\ last.ret = FALSE
    /\ last.pos \in state.filled

\* C3: placer_win is true exactly when the dot's six neighbour slots are on
\* the board and filled, hence false on the rim; and when it is true no
\* slot of branch_dot holds a successor or an escape.
PlacerWinContract ==
    /\ placer_win(state) <=> Enclosed(state)
    /\ OnBoundary(state.dot) => ~placer_win(state)
    /\ placer_win(state) => \A nidx \in 1..6 : branch_dot(state)[nidx] = None

\* C3 witness: a fill has enclosed the dot.
PlacerWinWitness ==
    /\ last.op = "fill"
    /\ last.ret = TRUE
    /\ placer_win(state)

\* C4: each slot of branch_dot is the escape marker exactly when the
\* neighbour is off the board, is omitted exactly when the neighbour is on
\* the board and filled, and otherwise is the state with the dot on the
\* neighbour and the same filled cells.
BranchDotContract ==
    \A nidx \in 1..6 :
        \E n \in {neighbors(state.dot)[nidx]}, b \in {branch_dot(state)[nidx]} :
            /\ (b = Some(None)) <=> (n = None)
            /\ (b = None) <=> (n # None /\ Unwrap(n) \in state.filled)
            /\ (n # None /\ Unwrap(n) \notin state.filled) =>
                 /\ IsSome(b) /\ IsSome(Unwrap(b))
                 /\ Unwrap(Unwrap(b)).dot = Unwrap(n)
                 /\ Unwrap(Unwrap(b)).filled = state.filled
                 /\ HexAdjacent(state.dot, Unwrap(Unwrap(b)).dot)

\* C4 witness: after a dot move, the three kinds of slot all occur.
BranchDotWitness ==
    /\ last.op = "move"
    /\ \E nidx \in 1..6 : branch_dot(state)[nidx] = None
    /\ \E nidx \in 1..6 : branch_dot(state)[nidx] = Some(None)
    /\ \E nidx \in 1..6 : IsSome(branch_dot(state)[nidx])
                          /\ IsSome(Unwrap(branch_dot(state)[nidx]))

\* The cells in ascending index order, which is row-major order.
CellsAscending == SubSeq([i \in 1..BOARD_SIZE |-> i - 1], 1, BOARD_SIZE)

\* The legal placements of s, in row-major order.
LegalCells(s) ==
    SelectSeq(CellsAscending, LAMBDA p : p # s.dot /\ p \notin s.filled)

\* C5: branch_placer yields one item per cell that is neither the dot's nor
\* filled, in row-major order: the enclosure marker exactly when filling
\* the cell encloses the dot, otherwise the state with that one cell added.
\* No successor has the dot's cell filled and no two successors are equal.
BranchPlacerContract ==
    \E bp \in {branch_placer(state)}, cells \in {LegalCells(state)} :
        /\ Len(bp) = Len(cells)
        /\ Len(cells) = Cardinality(PosSet \ (state.filled \cup {state.dot}))
        /\ \A i \in 1..Len(cells) :
            IF Enclosed([state EXCEPT !.filled = @ \cup {cells[i]}])
            THEN bp[i] = None
            ELSE /\ bp[i] = Some([dot |-> state.dot,
                                  filled |-> state.filled \cup {cells[i]}])
                 /\ state.dot \notin Unwrap(bp[i]).filled
        /\ \E succ \in {{i \in 1..Len(bp) : IsSome(bp[i])}} :
            Cardinality({bp[i] : i \in succ}) = Cardinality(succ)

\* C5 witness: a placement has been taken where another item of the same
\* enumeration is the enclosure marker.
BranchPlacerWitness ==
    /\ last.op = "place"
    /\ \E bp \in {branch_placer(state)} :
        /\ \E i \in 1..Len(bp) : bp[i] = None
        /\ \E i \in 1..Len(bp) : IsSome(bp[i])

\* A frontier log without repeats.
NoRepeats(seq) == Cardinality({seq[i] : i \in 1..Len(seq)}) = Len(seq)

\* C6: dist_to_reach_edge returns Some(k), k the fewest dot moves that
\* leave the board through unfilled cells (1 on the rim), and None exactly
\* when no rim cell can be reached; no cell is put on a frontier twice.
ReachEdgeContract ==
    last.op = "dist_to_reach_edge" =>
        /\ ~last.run.panicked
        /\ last.run.ret = ShortestEscape(state)
        /\ Enclosed(state) => last.run.ret = None
        /\ NoRepeats(last.run.pushed)

\* C7: on a board with no filled cell dist_to_reach_edge returns
\* Some(dist_to_edge(dot)), which is 1 on the rim.
EmptyBoardContract ==
    (last.op = "dist_to_reach_edge" /\ state.filled = {}) =>
        /\ ~last.run.panicked
        /\ last.run.ret = Some(dist_to_edge(state.dot))
        /\ OnBoundary(state.dot) => last.run.ret = Some(1)

\* The claimed order of the keys: a distance beats a longer distance and
\* any distance beats no path.
Closer(a, b) ==
    \/ a # None /\ b = None
    \/ a # None /\ b # None /\ Unwrap(a) < Unwrap(b)

\* C10: for a non-empty list SmartPathfind::preferred_state returns the
\* index of a candidate no other candidate is closer to the edge than, a
\* candidate with no path being farther than all that have one.
PreferredContract ==
    (last.op = "preferred_state" /\ Len(last.choices) > 0) =>
        /\ ~last.run.panicked
        /\ last.run.ret \in 0..(Len(last.choices) - 1)
        /\ \A j \in 1..Len(last.choices) :
              ~Closer(ShortestEscape(last.choices[j]),
                      ShortestEscape(last.choices[last.run.ret + 1]))

\* The number of present entries of a neighbors array.
PresentCount(ns) == Cardinality({i \in 1..6 : ns[i] # None})

IsCorner(p) ==
    /\ p % BOARD_W \in {0, BOARD_W - 1}
    /\ p \div BOARD_W \in {0, BOARD_H - 1}

\* What C8 says of neighbors without comparing corner and edge cells:
\* the present entries are the in-board cells touching p, one entry each;
\* a rim cell has fewer of them than an interior cell; adjacency is
\* symmetric.
NeighborsCommon ==
    /\ Present(last.of_p) = AdjacentCells(last.p)
    /\ PresentCount(last.of_p) = Cardinality(AdjacentCells(last.p))
    /\ (OnBoundary(last.p) /\ ~OnBoundary(last.q)) =>
          PresentCount(last.of_p) < PresentCount(last.of_q)
    /\ last.q \in Present(last.of_p) => last.p \in Present(last.of_q)

\* C8 as stated: every corner cell has fewer present neighbours than every
\* non-corner rim cell.
NeighborsContractOriginal ==
    last.op = "neighbors" =>
        /\ NeighborsCommon
        /\ (IsCorner(last.p) /\ OnBoundary(last.q) /\ ~IsCorner(last.q)) =>
              PresentCount(last.of_p) < PresentCount(last.of_q)

\* C8, amended: neighbors(p) has one present entry per in-board cell
\* touching p, every corner cell has at most as many present neighbours as
\* every non-corner rim cell, every rim cell has fewer than every interior
\* cell, and every present neighbour of p has p among its own.
NeighborsContract ==
    last.op = "neighbors" =>
        /\ NeighborsCommon
        /\ (IsCorner(last.p) /\ OnBoundary(last.q) /\ ~IsCorner(last.q)) =>
              PresentCount(last.of_p) <= PresentCount(last.of_q)

\* C8 witness: a corner cell and a non-corner rim cell with the same
\* number of present neighbours, the one a neighbour of a neighbour of the
\* other.
NeighborsWitness ==
    /\ last.op = "neighbors"
    /\ IsCorner(last.p) /\ OnBoundary(last.q) /\ ~IsCorner(last.q)
    /\ PresentCount(last.of_p) = PresentCount(last.of_q)
    /\ Present(last.of_p) \cap Present(last.of_q) # {}

OutcomeLt(a, b) == outcome_cmp(a, b) = -1

\* Every Outcome value within the counts search reaches.
OutcomeRange ==
    {Lose(k) : k \in 0..SEARCH_DEPTH}
    \cup {Play(dist_to_edge(p)) : p \in PosSet}
    \cup {Win(-k) : k \in 0..SEARCH_DEPTH}

\* C9: the order of Outcome is total; every Lose is below every Play and
\* every Play below every Win; a win in fewer turns is above a win in more
\* turns and a loss after more turns is above a loss after fewer turns,
\* for the values search returns with inc applied at each ply.
OutcomeOrder ==
    last.op = "search" =>
        \E a \in {last.a.v}, b \in {last.b.v} :
            /\ a \in OutcomeRange /\ b \in OutcomeRange
            /\ (OutcomeLt(a, b) /\ ~OutcomeLt(b, a))
               \/ (OutcomeLt(b, a) /\ ~OutcomeLt(a, b))
               \/ (a = b /\ ~OutcomeLt(a, b) /\ ~OutcomeLt(b, a))
            /\ \A c \in OutcomeRange :
                  (OutcomeLt(a, b) /\ OutcomeLt(b, c)) => OutcomeLt(a, c)
            /\ (a.tag = "Lose" /\ b.tag \in {"Play", "Win"}) => OutcomeLt(a, b)
            /\ (a.tag = "Play" /\ b.tag = "Win") => OutcomeLt(a, b)
            /\ (a.tag = "Win" /\ b.tag = "Win" /\ last.a.incs < last.b.incs) =>
                  OutcomeLt(b, a)
            /\ (a.tag = "Lose" /\ b.tag = "Lose" /\ last.a.incs > last.b.incs) =>
                  OutcomeLt(b, a)

\* C9 witness: a win in one turn beside a win in three turns.
OutcomeOrderWitness ==
    /\ last.op = "search"
    /\ last.a.v.tag = "Win" /\ last.a.incs = 1
    /\ last.b.v.tag = "Win" /\ last.b.incs = 3

\* C11: DotStrategy::play on a state whose dot has six on-board neighbours,
\* all filled, returns None and does not fail.
PlayEnclosedContract ==
    (last.op = "dot_play" /\ Enclosed(state)) =>
        /\ ~last.run.panicked
        /\ last.run.ret = None

\* The states the dot can move to, in the order the policy is shown them:
\* the board unchanged, the dot on a free touching cell.
IsFreeNeighbor(s, n) == n # None /\ Unwrap(n) \notin s.filled

Candidates(s) ==
    LET free == SelectSeq(NeighborTable(s.dot),
                          LAMBDA n : IsFreeNeighbor(s, n))
    IN  [i \in 1..Len(free) |-> [dot |-> Unwrap(free[i]), filled |-> s.filled]]

\* The results of the lines played against a policy from s, the dot to
\* move at its (k+1)-th turn of n, one line for each sequence of
\* placements: Play of the dot's distance to the rim at the horizon,
\* Lose(k) when the dot stands on the rim, Win(-k) when the placement that
\* answers the dot's move encloses it.
RECURSIVE LineResults(_, _, _, _)
LineResults(s, policy, k, n) ==
    IF k = n THEN {Play(dist_to_edge(s.dot))}
    ELSE IF OnBoundary(s.dot) THEN {Lose(k)}
    ELSE LET cands == Candidates(s)
             pick == preferred_state(policy, cands)
             moved == cands[pick.ret + 1]
         IN  IF pick.panicked THEN {}
             ELSE UNION {IF Enclosed([moved EXCEPT !.filled = @ \cup {c}])
                         THEN {Win(-k)}
                         ELSE LineResults([moved EXCEPT !.filled = @ \cup {c}],
                                          policy, k + 1, n) :
                         c \in PosSet \ (moved.filled \cup {moved.dot})}

\* The greatest of a set of outcomes.
BestOutcome(outcomes) ==
    CHOOSE o \in outcomes : \A other \in outcomes : ~OutcomeLt(o, other)

\* A policy that answers every non-empty list in the build it runs in.
AlwaysAnswers(policy) ==
    ~(policy.name = "SmartPathfind" /\ policy.overflow_checks)

ScoreRange == TERMINAL_SCORE .. (-TERMINAL_SCORE)

\* C13: approx_utility_placer(state, lvl) with lvl >= 1 returns a score on
\* every state, its minimum never being taken over nothing, and every
\* score approx_utility_placer or approx_utility_dot returns lies in
\* -100..100.
UtilityContract ==
    /\ last.op = "approx_utility_placer" =>
          /\ ~last.run.panicked
          /\ last.run.ret \in ScoreRange
    /\ (last.op = "approx_utility_dot" /\ ~last.run.panicked) =>
          last.run.ret \in ScoreRange

\* C14: no run of the AI-versus-AI loop started from State::new fails: at
\* every turn the mover has a candidate and preferred_state, with the
\* searches inside it, returns, until the loop breaks with the verdict
\* "placer" or "dot", after at most 81 turns of the placer.
LoopContract ==
    last.op = "loop" =>
        /\ last.verdict \in {"none", "placer", "dot"}
        /\ nops <= BOARD_SIZE

====
